---- MODULE Spec2Model ----
(***************************************************************************)
(* A model of the gzip response-compression middleware (gzip.go).          *)
(*                                                                         *)
(* The state is: the handler configuration (h), one responseWriter per     *)
(* request (rw), the response header map of each request (hdr), the        *)
(* downstream http.ResponseWriter of each request (down), the gzip.Writer  *)
(* handles (gzw) with the handler's sync.Pool of them (pool), and the      *)
(* byte buffers (bufs) with the package's bufferPool.  Go methods are      *)
(* operators from a world record to a result record; an action applies one *)
(* call of the wrapped handler, or of the server, to the world.            *)
(***************************************************************************)
EXTENDS Integers, Sequences, FiniteSets, TLC

\* ---------------------------------------------------------------- bounds
NumReqs    == 2   \* requests served by the handler
MaxMinSize == 3   \* largest configured h.minSize
MaxBytes   == 3   \* bytes a wrapped handler passes to Write, in total
MaxChunk   == 2   \* longest single Write
MaxAccept  == 2   \* longest Accept-Encoding list
FewBytes   == 1   \* bytes per handler where other inputs are varied
Beyond     == 1   \* how far outside their valid ranges options are drawn

\* ------------------------------------------------------ program constants
sniffLen == 2     \* the sniff window (512 in the source), scaled to the bounds
StatusOK == 200   \* net/http StatusOK
defaultMinSize == 2   \* 512 in the source, scaled like sniffLen

\* The compression levels of compress/gzip, as the package re-exports them.
NoCompression      == 0
BestSpeed          == 1
BestCompression    == 9
DefaultCompression == -1
HuffmanOnly        == -2

Reqs    == 1..NumReqs
Handles == 1..NumReqs     \* identities of *gzip.Writer values
Bufs    == 1..NumReqs     \* identities of *[]byte values
Nil     == 0              \* the nil pointer

\* writerState
writerStateInitial     == "initial"
writerStatePassThrough == "passThrough"
writerStateCompress    == "compress"

Codes == {404, 500}       \* status codes a handler passes to WriteHeader

\* The k-th byte that the handler of request r passes to Write.
Byte(r, k) == r * 100 + k
Chunk(r, from, n) == [i \in 1..n |-> Byte(r, from + i)]

\* What reaches the transport: bytes written as they are, and the gzip
\* stream (header, deflated bytes, trailer).
Raw(bs)   == [i \in 1..Len(bs) |-> <<"raw", bs[i]>>]
Gz(bs)    == [i \in 1..Len(bs) |-> <<"gz", bs[i]>>]
GzHeader  == <<"gzh", 0>>
GzTrailer == <<"gzt", 0>>

Payload(items) == [i \in 1..Len(items) |-> items[i][2]]

\* gzip.NewReader + ReadAll on a body: defined when the body is one complete
\* gzip stream.
IsGzipStream(body) ==
    /\ Len(body) >= 2
    /\ body[1] = GzHeader
    /\ body[Len(body)] = GzTrailer
    /\ \A i \in 2..(Len(body) - 1) : body[i][1] = "gz"
Gunzip(body) == Payload(SubSeq(body, 2, Len(body) - 1))

Prefix(s, n) == IF Len(s) <= n THEN s ELSE SubSeq(s, 1, n)

\* http.DetectContentType: a function of at most the first sniffLen bytes.
\* The MIME type is represented by the bytes it was computed from.
DetectContentType(data) == Prefix(data, sniffLen)

NoContentType == [src |-> "none", val |-> <<>>]
EmptyHeader == [CE |-> "", CL |-> "", CT |-> NoContentType, Vary |-> <<>>]

\* ------------------------------------------------------------- variables
VARIABLES
    pc,          \* per request: "idle", "run" (wrapped handler running), "done"
    ctor,        \* the constructor call that made the handler, and its outcome
    h,           \* the handler: minSize, canCompress, level (of its pool)
    alive,       \* per request: the transport still accepts writes
    flusher,     \* per request: the downstream writer is an http.Flusher
    caps,        \* per request: the optional interfaces of the downstream writer
    given,       \* per request: those of the writer the wrapped handler gets
    wrapped,     \* per request: ServeHTTP built a responseWriter
    rw,          \* per request: responseWriter fields buf, gw, code, state
    hdr,         \* per request: the response header map
    down,        \* per request: the downstream writer (what was transmitted)
    gzw,         \* per handle: the gzip.Writer
    pool,        \* h.pool: how many times each handle is in the pool
    bufs,        \* per buffer: its bytes
    bufferPool,  \* bufferPool: how many times each buffer is in the pool
    hist,        \* per request: observations (calls made, bytes written)
    last         \* per request: the latest call and its outcome

vars == <<pc, ctor, h, alive, flusher, caps, given, wrapped, rw, hdr, down, gzw,
          pool, bufs, bufferPool, hist, last>>

\* The world an operation starts from; calls counts the calls the operation
\* makes on downstream writers.
World == [h |-> h, alive |-> alive, flusher |-> flusher, rw |-> rw, hdr |-> hdr,
          down |-> down, gzw |-> gzw, pool |-> pool, bufs |-> bufs,
          bufferPool |-> bufferPool, hist |-> hist, calls |-> 0]

Install(s) ==
    /\ rw' = s.rw
    /\ hdr' = s.hdr
    /\ down' = s.down
    /\ gzw' = s.gzw
    /\ pool' = s.pool
    /\ bufs' = s.bufs
    /\ bufferPool' = s.bufferPool
    /\ hist' = s.hist

\* ------------------------------------------- downstream http.ResponseWriter
\* net/http: the header is sent, with a copy of the header map, on the first
\* WriteHeader; Write and Flush send it with StatusOK if it was not sent yet.
SendHeader(s, r, code) ==
    IF s.down[r].sent
    THEN s
    ELSE [s EXCEPT !.down[r].sent = TRUE, !.down[r].status = code,
                   !.down[r].snap = s.hdr[r]]

DownWriteHeader(s, r, code) ==
    [SendHeader(s, r, code) EXCEPT !.calls = @ + 1]

DownWrite(s, r, items) ==
    LET s1 == [SendHeader(s, r, StatusOK) EXCEPT !.calls = @ + 1]
    IN  IF s.alive[r]
        THEN [st |-> [s1 EXCEPT !.down[r].body = @ \o items], err |-> FALSE]
        ELSE [st |-> s1, err |-> TRUE]

DownFlush(s, r) ==
    [SendHeader(s, r, StatusOK) EXCEPT !.calls = @ + 1]

\* http.PushOptions, as far as its Header goes; opts may be a nil pointer.
AcceptGzip  == <<"Accept-Encoding", "gzip">>
OtherHeader == <<"Cache-Control", "no-cache">>
NilOptions  == [nil |-> TRUE, Header |-> {}]
PushOptions ==
    {NilOptions} \cup {[nil |-> FALSE, Header |-> hs] : hs \in SUBSET {AcceptGzip, OtherHeader}}
NoPush == [called |-> FALSE, opts |-> NilOptions]

\* http.Pusher.Push of the downstream writer: it gets opts.
DownPush(s, r, opts) ==
    [s EXCEPT !.down[r].push = [called |-> TRUE, opts |-> opts], !.calls = @ + 1]

\* ------------------------------------------------------------ gzip.Writer
\* A writer holds what was written to it (pend) until Flush or Close; its
\* first write sends the gzip header to its sink, Close sends the trailer.
\* An error of the sink is kept in the writer (z.err).
NewGzipWriter ==
    [made |-> FALSE, sink |-> Nil, pend |-> <<>>, wroteHeader |-> FALSE,
     closed |-> FALSE, err |-> FALSE]

\* A reset that leaves the writer on the sink it had.
GzResetKeepSink(s, g, r) ==
    [s EXCEPT !.gzw[g] = [made |-> TRUE,
                          sink |-> IF s.gzw[g].sink = Nil THEN r ELSE s.gzw[g].sink,
                          pend |-> <<>>, wroteHeader |-> FALSE, closed |-> FALSE,
                          err |-> FALSE]]

\* w.gw.Reset(w.ResponseWriter)
GzReset(s, g, r) ==
    [s EXCEPT !.gzw[g] = [made |-> TRUE, sink |-> r, pend |-> <<>>,
                          wroteHeader |-> FALSE, closed |-> FALSE, err |-> FALSE]]

\* z.w.Write(items)
GzSink(s, g, items) ==
    IF s.gzw[g].sink = Nil
    THEN [st |-> [s EXCEPT !.gzw[g].err = TRUE], err |-> TRUE]
    ELSE LET e == DownWrite(s, s.gzw[g].sink, items)
         IN  [st |-> [e.st EXCEPT !.gzw[g].err = e.err], err |-> e.err]

GzWriteHeader(s, g) ==
    IF s.gzw[g].wroteHeader
    THEN [st |-> s, err |-> FALSE]
    ELSE GzSink([s EXCEPT !.gzw[g].wroteHeader = TRUE], g, <<GzHeader>>)

GzWrite(s, g, data) ==
    IF s.gzw[g].err \/ s.gzw[g].closed
    THEN [st |-> s, err |-> TRUE]
    ELSE LET e == GzWriteHeader(s, g)
         IN  IF e.err
             THEN e
             ELSE [st |-> [e.st EXCEPT !.gzw[g].pend = @ \o Gz(data)], err |-> FALSE]

GzFlush(s, g) ==
    IF s.gzw[g].err
    THEN [st |-> s, err |-> TRUE]
    ELSE IF s.gzw[g].closed
    THEN [st |-> s, err |-> FALSE]
    ELSE LET e == GzWriteHeader(s, g)
         IN  IF e.err
             THEN e
             ELSE GzSink([e.st EXCEPT !.gzw[g].pend = <<>>], g, e.st.gzw[g].pend)

GzClose(s, g) ==
    IF s.gzw[g].err
    THEN [st |-> s, err |-> TRUE]
    ELSE IF s.gzw[g].closed
    THEN [st |-> s, err |-> FALSE]
    ELSE LET e == GzWriteHeader([s EXCEPT !.gzw[g].closed = TRUE], g)
         IN  IF e.err
             THEN e
             ELSE GzSink([e.st EXCEPT !.gzw[g].pend = <<>>], g,
                         Append(e.st.gzw[g].pend, GzTrailer))

\* ---------------------------------------------------------------- pools
\* sync.Pool.Get returns a pooled value or makes a new one; Put adds one.
PoolChoices(p, made) ==
    {x \in DOMAIN p : p[x] > 0}
        \cup {x \in DOMAIN p : ~made[x] /\ \A y \in DOMAIN p : y < x => made[y]}

HandleChoices == PoolChoices(pool, [g \in Handles |-> gzw[g].made])
BufMade == [b \in Bufs |-> bufferPool[b] > 0 \/ \E r \in Reqs : rw[r].buf = b]

PoolTake(p, x) == IF p[x] > 0 THEN [p EXCEPT ![x] = @ - 1] ELSE p
PoolPut(p, x)  == [p EXCEPT ![x] = @ + 1]

\* --------------------------------------------------------- responseWriter
NilWriter == [buf |-> Nil, gw |-> Nil, code |-> StatusOK, state |-> writerStateInitial]

NoHist == [written |-> 0, closes |-> 0, acq |-> 0, puts |-> 0, bufPuts |-> 0,
           evals |-> 0, flushed |-> FALSE, newErr |-> FALSE]

\* h.canCompress(w.Header()), for the predicates a handler is configured with:
\* one that accepts all, one that rejects all, and one that rejects the
\* content types the wrapped handler declares itself.
CanCompress(kind, header) ==
    CASE kind = "always" -> TRUE
      [] kind = "never"  -> FALSE
      [] OTHER           -> header.CT.src # "handler"

\* A comparison that is off by one.
BelowMinSizeOffByOne(lenBuf, lenB, minSize) == lenBuf + lenB + 1 < minSize

\* len(buf)+len(b) < w.h.minSize
BelowMinSize(lenBuf, lenB, minSize) == lenBuf + lenB < minSize

\* A release that leaves w.buf set.
ReleaseBufKeepRef(s, r) ==
    LET b == s.rw[r].buf
    IN  [s EXCEPT !.bufs[b] = <<>>,
                  !.bufferPool = PoolPut(@, b),
                  !.hist[r].bufPuts = @ + 1]

\* A release that puts the buffer back with its bytes.
ReleaseBufDirty(s, r) ==
    LET b == s.rw[r].buf
    IN  [s EXCEPT !.bufferPool = PoolPut(@, b),
                  !.rw[r].buf = Nil,
                  !.hist[r].bufPuts = @ + 1]

\* *w.buf = buf[:0]; bufferPool.Put(w.buf); w.buf = nil
ReleaseBuf(s, r) ==
    LET b == s.rw[r].buf
    IN  [s EXCEPT !.bufs[b] = <<>>,
                  !.bufferPool = PoolPut(@, b),
                  !.rw[r].buf = Nil,
                  !.hist[r].bufPuts = @ + 1]

\* A release that leaves w.gw set.
ReleaseGwKeepRef(s, r) ==
    [s EXCEPT !.pool = PoolPut(@, s.rw[r].gw),
              !.hist[r].puts = @ + 1]

\* w.h.pool.Put(w.gw); w.gw = nil
ReleaseGw(s, r) ==
    [s EXCEPT !.pool = PoolPut(@, s.rw[r].gw),
              !.rw[r].gw = Nil,
              !.hist[r].puts = @ + 1]

\* w.gw = w.h.pool.Get().(*gzip.Writer); w.gw.Reset(w.ResponseWriter)
AcquireGw(s, r, g) ==
    GzReset([s EXCEPT !.pool = PoolTake(@, g),
                      !.rw[r].gw = g,
                      !.hist[r].acq = @ + 1], g, r)

inferContentType(s, r, b) ==
    IF s.hdr[r].CT.src # "none"
    THEN s
    ELSE LET buf  == s.bufs[s.rw[r].buf]
             data == IF Len(buf) # 0
                     THEN IF Len(buf) >= sniffLen
                          THEN buf
                          ELSE IF Len(buf) + Len(b) > sniffLen
                          THEN buf \o SubSeq(b, 1, sniffLen - Len(buf))
                          ELSE buf \o b
                     ELSE b
         IN  [s EXCEPT !.hdr[r].CT = [src |-> "sniffed", val |-> DetectContentType(data)]]

\* A pass-through that releases the buffer without sending its bytes.
startPassThroughDropBuf(s, r) ==
    LET s1 == DownWriteHeader(s, r, s.rw[r].code)
        s2 == ReleaseBuf(s1, r)
    IN  [st |-> [s2 EXCEPT !.rw[r].state = writerStatePassThrough], err |-> FALSE]

\* A pass-through that leaves w.state as it was.
startPassThroughKeepState(s, r) ==
    LET s1  == DownWriteHeader(s, r, s.rw[r].code)
        buf == s1.bufs[s1.rw[r].buf]
        e   == IF Len(buf) # 0
               THEN DownWrite(s1, r, Raw(buf))
               ELSE [st |-> s1, err |-> FALSE]
    IN  [st |-> ReleaseBuf(e.st, r), err |-> e.err]

\* The header goes out with the saved code, the buffered bytes follow as
\* they are, the buffer is released.
startPassThrough(s, r) ==
    LET s1  == DownWriteHeader(s, r, s.rw[r].code)
        buf == s1.bufs[s1.rw[r].buf]
        e   == IF Len(buf) # 0
               THEN DownWrite(s1, r, Raw(buf))
               ELSE [st |-> s1, err |-> FALSE]
        s2  == ReleaseBuf(e.st, r)
    IN  [st |-> [s2 EXCEPT !.rw[r].state = writerStatePassThrough], err |-> e.err]

\* A startGzip that keeps the buffer after sending its bytes.
startGzipKeepBuf(s, r, g) ==
    LET s1  == [s EXCEPT !.hdr[r].CE = "gzip", !.hdr[r].CL = ""]
        s2  == DownWriteHeader(s1, r, s1.rw[r].code)
        s3  == AcquireGw(s2, r, g)
        buf == s3.bufs[s3.rw[r].buf]
        e   == IF Len(buf) # 0
               THEN GzWrite(s3, g, buf)
               ELSE [st |-> s3, err |-> FALSE]
    IN  [st |-> e.st, err |-> e.err, panic |-> FALSE]

\* A startGzip that returns the error of the buffer's write at once, before
\* the buffer is released.
startGzipLeakOnErr(s, r, g) ==
    LET s1  == [s EXCEPT !.hdr[r].CE = "gzip", !.hdr[r].CL = ""]
        s2  == DownWriteHeader(s1, r, s1.rw[r].code)
        s3  == AcquireGw(s2, r, g)
        buf == s3.bufs[s3.rw[r].buf]
        e   == IF Len(buf) # 0
               THEN GzWrite(s3, g, buf)
               ELSE [st |-> s3, err |-> FALSE]
    IN  IF e.err
        THEN [st |-> e.st, err |-> TRUE, panic |-> FALSE]
        ELSE [st |-> ReleaseBuf(e.st, r), err |-> FALSE, panic |-> FALSE]

\* gzip.NewWriterLevel returns an error for a level outside
\* HuffmanOnly..BestCompression.
NewWriterLevelErr(level) == level < HuffmanOnly \/ level > BestCompression

\* g is the handle that w.h.pool.Get() returns; a handle not made yet is made
\* by the pool's New, which panics if gzip.NewWriterLevel returns an error.
startGzip(s, r, g) ==
    LET s1  == [s EXCEPT !.hdr[r].CE = "gzip", !.hdr[r].CL = ""]
        s2  == DownWriteHeader(s1, r, s1.rw[r].code)
        s3  == AcquireGw(s2, r, g)
        buf == s3.bufs[s3.rw[r].buf]
        e   == IF Len(buf) # 0
               THEN GzWrite(s3, g, buf)
               ELSE [st |-> s3, err |-> FALSE]
    IN  IF ~s2.gzw[g].made /\ NewWriterLevelErr(s2.h.level)
        THEN [st |-> [s2 EXCEPT !.hist[r].newErr = TRUE], err |-> FALSE, panic |-> TRUE]
        ELSE [st |-> ReleaseBuf(e.st, r), err |-> e.err, panic |-> FALSE]

\* A buffering that stores the write in place of what was buffered.
BufferReplace(s, r, b) == [s EXCEPT !.bufs[s.rw[r].buf] = b]

\* *w.buf = append(buf, b...)
Buffer(s, r, b) == [s EXCEPT !.bufs[s.rw[r].buf] = @ \o b]

\* Write returns err, or panics: on the nil buffer pointer of a closed
\* writer, or in the pool's New.
Write(s, r, b, g) ==
    LET w == s.rw[r]
    IN  IF w.state = writerStatePassThrough
        THEN DownWrite(s, r, Raw(b)) @@ [panic |-> FALSE]
        ELSE IF w.gw # Nil
        THEN GzWrite(s, w.gw, b) @@ [panic |-> FALSE]
        ELSE IF w.buf = Nil
        THEN [st |-> s, err |-> FALSE, panic |-> TRUE]
        ELSE IF BelowMinSize(Len(s.bufs[w.buf]), Len(b), s.h.minSize)
        THEN [st |-> Buffer(s, r, b), err |-> FALSE, panic |-> FALSE]
        ELSE
          LET initial == w.state = writerStateInitial
              s1 == IF initial THEN inferContentType(s, r, b) ELSE s
              asked == initial /\ s.h.canCompress # "nil"
              s2 == IF asked THEN [s1 EXCEPT !.hist[r].evals = @ + 1] ELSE s1
          IN  IF asked /\ ~CanCompress(s.h.canCompress, s2.hdr[r])
              THEN LET e == startPassThrough(s2, r)
                   IN  IF e.err
                       THEN e @@ [panic |-> FALSE]
                       ELSE DownWrite(e.st, r, Raw(b)) @@ [panic |-> FALSE]
              ELSE LET s3 == [s2 EXCEPT !.rw[r].state = writerStateCompress]
                       e  == startGzip(s3, r, g)
                   IN  IF e.err \/ e.panic
                       THEN e
                       ELSE GzWrite(e.st, e.st.rw[r].gw, b) @@ [panic |-> FALSE]

Close(s, r) ==
    LET e1 == IF s.rw[r].buf # Nil
              THEN LET s1  == inferContentType(s, r, <<>>)
                       s2  == DownWriteHeader(s1, r, s1.rw[r].code)
                       buf == s2.bufs[s2.rw[r].buf]
                       e   == DownWrite(s2, r, Raw(buf))
                   IN  [st |-> ReleaseBuf(e.st, r), err |-> e.err]
              ELSE [st |-> s, err |-> FALSE]
    IN  IF e1.err
        THEN e1
        ELSE IF e1.st.rw[r].gw = Nil
        THEN [st |-> e1.st, err |-> FALSE]
        ELSE LET e2 == GzClose(e1.st, e1.st.rw[r].gw)
             IN  [st |-> ReleaseGw(e2.st, r), err |-> e2.err]

Flush(s, r) ==
    LET s1 == IF s.rw[r].gw # Nil THEN GzFlush(s, s.rw[r].gw).st ELSE s
    IN  IF s.flusher[r] THEN DownFlush(s1, r) ELSE s1

\* Push of the writer the handler gets: the wrapper types embed the
\* http.Pusher of the downstream writer, whose Push is called as it is.
Push(s, r, opts) == DownPush(s, r, opts)

\* ----------------------------------------------------------- constructors
\* The handler struct before it is built.
NilHandler == [minSize |-> 0, canCompress |-> "nil", level |-> 0]

\* A constructor that checks the lower end of the level range only.
GzipWithOptionsNoUpperBound(opts) ==
    IF opts.Level # DefaultCompression /\ opts.Level < BestSpeed
    THEN [panic |-> TRUE, h |-> NilHandler]
    ELSE IF opts.MinSize < 0
    THEN [panic |-> TRUE, h |-> NilHandler]
    ELSE [panic |-> FALSE,
          h |-> [minSize |-> opts.MinSize, canCompress |-> opts.CanCompress,
                 level |-> opts.Level]]

\* opts is a non-nil *Options: Level, MinSize, CanCompress.
GzipWithOptions(opts) ==
    IF /\ opts.Level # DefaultCompression
       /\ (opts.Level < BestSpeed \/ opts.Level > BestCompression)
    THEN [panic |-> TRUE, h |-> NilHandler]
    ELSE IF opts.MinSize < 0
    THEN [panic |-> TRUE, h |-> NilHandler]
    ELSE [panic |-> FALSE,
          h |-> [minSize |-> opts.MinSize, canCompress |-> opts.CanCompress,
                 level |-> opts.Level]]

GzipWithLevelAndMinSize(level, minSize) ==
    GzipWithOptions([Level |-> level, MinSize |-> minSize, CanCompress |-> "nil"])

GzipWithLevel(level) == GzipWithLevelAndMinSize(level, defaultMinSize)

Gzip == GzipWithLevel(DefaultCompression)

\* A constructor call: the function called and its arguments (opts holds
\* the level and minSize arguments of the functions that take them).
Constructors == {"Gzip", "GzipWithLevel", "GzipWithLevelAndMinSize", "GzipWithOptions"}

Build(call) ==
    CASE call.via = "GzipWithOptions" -> GzipWithOptions(call.opts)
      [] call.via = "GzipWithLevelAndMinSize" ->
            GzipWithLevelAndMinSize(call.opts.Level, call.opts.MinSize)
      [] call.via = "GzipWithLevel" -> GzipWithLevel(call.opts.Level)
      [] OTHER -> Gzip

\* ------------------------------------------------------- handler.ServeHTTP
\* The optional interfaces of http.ResponseWriter values.
Capabilities == {"closeNotify", "hijack", "push"}

\* The switch over the interfaces of the downstream writer: the interfaces
\* of the wrapper type it picks (none for the bare responseWriter).
Exposed(under) ==
    LET cok == "closeNotify" \in under
        hok == "hijack" \in under
        pok == "push" \in under
    IN  CASE cok /\ hok -> {"closeNotify", "hijack"}
          [] cok /\ pok -> {"closeNotify", "push"}
          [] cok        -> {"closeNotify"}
          [] hok        -> {"hijack"}
          [] pok        -> {"push"}
          [] OTHER      -> {}

\* An Accept-Encoding list, as header.ParseAccept returns it: specs of a
\* token (its characters) and a weight Q (in thousandths).
TokGzip    == <<"g", "z", "i", "p">>
TokGZIP    == <<"G", "Z", "I", "P">>
TokXGz     == <<"x", "-", "g", "z">>
TokDeflate == <<"d", "e", "f", "l", "a", "t", "e">>
Tokens     == {TokGzip, TokGZIP, TokXGz, TokDeflate}
Weights    == {0, 1000}
AcceptSpecs == [Value : Tokens, Q : Weights]
AcceptLists == UNION {[1..n -> AcceptSpecs] : n \in 0..MaxAccept}

\* strings.ToLower
LowerChar(c) ==
    CASE c = "G" -> "g" [] c = "Z" -> "z" [] c = "I" -> "i" [] c = "P" -> "p"
      [] OTHER -> c
ToLower(v) == [i \in 1..Len(v) |-> LowerChar(v[i])]

\* The loop over the specs: the first spec whose token is gzip decides.
RECURSIVE AcceptsGzipFrom(_, _)
AcceptsGzipFrom(specs, i) ==
    IF i > Len(specs)
    THEN FALSE
    ELSE IF Len(specs[i].Value) # Len(TokGzip)
    THEN AcceptsGzipFrom(specs, i + 1)
    ELSE IF specs[i].Value = TokGzip \/ ToLower(specs[i].Value) = TokGzip
    THEN specs[i].Q > 0
    ELSE AcceptsGzipFrom(specs, i + 1)

AcceptsGzip(specs) == AcceptsGzipFrom(specs, 1)

\* A header set in place of an append.
SetVary(v) == <<"Accept-Encoding">>

\* hdr["Vary"] = append(hdr["Vary"], "Accept-Encoding")
AddVary(v) == Append(v, "Accept-Encoding")

\* A Close called after the wrapped handler instead of deferred: a panic
\* skips it.
CloseAfterReturn(s, r, panicking) ==
    IF panicking
    THEN s
    ELSE [Close(s, r).st EXCEPT !.hist[r].closes = IF @ < 2 THEN @ + 1 ELSE @]

\* defer gw.Close(): runs when the wrapped handler returns and when it panics.
Deferred(s, r, panicking) ==
    [Close(s, r).st EXCEPT !.hist[r].closes = IF @ < 2 THEN @ + 1 ELSE @]

Call(op, arg, err, calls) == [op |-> op, arg |-> arg, err |-> err, calls |-> calls]

\* b is the buffer that bufferPool.Get() returns.
ServeHTTP(r, specs, b) ==
    /\ ctor.outcome = "ok"
    /\ pc[r] = "idle"
    /\ pc' = [pc EXCEPT ![r] = "run"]
    /\ hdr' = [hdr EXCEPT ![r].Vary = AddVary(@)]
    /\ wrapped' = [wrapped EXCEPT ![r] = AcceptsGzip(specs)]
    /\ given' = [given EXCEPT ![r] = IF AcceptsGzip(specs)
                                     THEN Exposed(caps[r])
                                     ELSE caps[r]]
    /\ IF AcceptsGzip(specs)
       THEN /\ rw' = [rw EXCEPT ![r] = [NilWriter EXCEPT !.buf = b]]
            /\ bufferPool' = PoolTake(bufferPool, b)
       ELSE UNCHANGED <<rw, bufferPool>>
    /\ last' = [last EXCEPT ![r] = Call("ServeHTTP", specs, FALSE, 0)]
    /\ UNCHANGED <<ctor, h, alive, flusher, caps, down, gzw, pool, bufs, hist>>

\* ------------------------------------------------- the wrapped handler
\* The calls of the wrapped handler on the writer it was given: the
\* responseWriter if the request was accepted, the original writer if not.
Frame == UNCHANGED <<pc, ctor, h, alive, flusher, caps, given, wrapped>>

HWriteHeader(r, code) ==
    /\ pc[r] = "run"
    /\ IF wrapped[r]
       THEN Install([World EXCEPT !.rw[r].code = code])
       ELSE Install(DownWriteHeader(World, r, code))
    /\ last' = [last EXCEPT ![r] = Call("Header", <<>>, FALSE, 0)]
    /\ Frame

HSetContentLength(r) ==
    /\ pc[r] = "run"
    /\ Install([World EXCEPT !.hdr[r].CL = "set"])
    /\ last' = [last EXCEPT ![r] = Call("Header", <<>>, FALSE, 0)]
    /\ Frame

HSetContentType(r) ==
    /\ pc[r] = "run"
    /\ Install([World EXCEPT !.hdr[r].CT = [src |-> "handler", val |-> <<>>]])
    /\ last' = [last EXCEPT ![r] = Call("Header", <<>>, FALSE, 0)]
    /\ Frame

\* Write of the next n bytes; max bounds the bytes of one handler.  A Write
\* that panics unwinds ServeHTTP, which runs the deferred Close.
HWrite(r, n, g, max) ==
    /\ pc[r] = "run"
    /\ hist[r].written + n <= max
    /\ LET data == Chunk(r, hist[r].written, n)
           res  == IF wrapped[r]
                   THEN Write(World, r, data, g)
                   ELSE DownWrite(World, r, Raw(data)) @@ [panic |-> FALSE]
       IN  IF res.panic
           THEN /\ Install(Deferred(res.st, r, TRUE))
                /\ pc' = [pc EXCEPT ![r] = "panicked"]
                /\ last' = [last EXCEPT ![r] = Call("Write", <<>>, FALSE, 0)]
           ELSE /\ Install([res.st EXCEPT !.hist[r].written = @ + n])
                /\ pc' = pc
                /\ last' = [last EXCEPT ![r] = Call("Write", <<>>, res.err, res.st.calls)]
    /\ UNCHANGED <<ctor, h, alive, flusher, caps, given, wrapped>>

HFlush(r) ==
    /\ pc[r] = "run"
    /\ LET s == IF wrapped[r]
                THEN [Flush(World, r) EXCEPT !.hist[r].flushed = TRUE]
                ELSE IF flusher[r] THEN DownFlush(World, r) ELSE World
       IN  /\ Install(s)
           /\ last' = [last EXCEPT ![r] = Call("Flush", <<>>, FALSE, 0)]
    /\ Frame

\* w.(http.Pusher).Push(target, opts) by the wrapped handler, when the
\* writer it was given is an http.Pusher.
HPush(r, opts) ==
    /\ pc[r] = "run"
    /\ "push" \in given[r]
    /\ LET s == IF wrapped[r] THEN Push(World, r, opts) ELSE DownPush(World, r, opts)
       IN  /\ Install(s)
           /\ last' = [last EXCEPT ![r] = Call("Push", <<>>, FALSE, s.calls)]
    /\ Frame

\* w.(io.Closer).Close() by the wrapped handler
HClose(r) ==
    /\ pc[r] = "run"
    /\ wrapped[r]
    /\ LET res == Close(World, r)
       IN  /\ Install([res.st EXCEPT !.hist[r].closes = IF @ < 2 THEN @ + 1 ELSE @])
           /\ last' = [last EXCEPT ![r] = Call("Close", <<>>, res.err, res.st.calls)]
    /\ Frame

\* The wrapped handler returns, or panics: ServeHTTP unwinds.
Unwind(r, panicking) ==
    /\ pc[r] = "run"
    /\ pc' = [pc EXCEPT ![r] = IF panicking THEN "panicked" ELSE "done"]
    /\ IF wrapped[r]
       THEN LET s == Deferred(World, r, panicking)
            IN  /\ Install(s)
                /\ last' = [last EXCEPT ![r] = Call("Close", <<>>, FALSE, s.calls)]
       ELSE /\ Install(World)
            /\ last' = [last EXCEPT ![r] = Call("Return", <<>>, FALSE, 0)]
    /\ UNCHANGED <<ctor, h, alive, flusher, caps, given, wrapped>>

HReturn(r) == Unwind(r, FALSE)
HPanic(r)  == Unwind(r, TRUE)

\* The client goes away: the transport fails every later write.
Disconnect(r) ==
    /\ pc[r] = "run"
    /\ alive[r]
    /\ alive' = [alive EXCEPT ![r] = FALSE]
    /\ UNCHANGED <<pc, ctor, h, flusher, caps, given, wrapped, rw, hdr, down, gzw,
                   pool, bufs, bufferPool, hist, last>>

\* ------------------------------------- gzipResponseWriter (older variant)
\* The writer of the older variant of the package keeps its buffer as a
\* slice of its own, nil until bytes are appended: rw[r].buf is Nil or r,
\* and bufs[r] holds the bytes.  It has no state field and no predicate.
gzipResponseWriterBuf(s, r) == IF s.rw[r].buf = Nil THEN <<>> ELSE s.bufs[r]

\* w.buf = append(w.buf, b...): appending nothing to a nil slice leaves nil.
gzipResponseWriterAppend(s, r, b) ==
    IF s.rw[r].buf = Nil /\ b = <<>>
    THEN s
    ELSE [s EXCEPT !.bufs[r] = gzipResponseWriterBuf(s, r) \o b, !.rw[r].buf = r]

gzipResponseWriterStartGzip(s, r, g) ==
    LET s1  == [s EXCEPT !.hdr[r].CE = "gzip", !.hdr[r].CL = ""]
        s2  == DownWriteHeader(s1, r, s1.rw[r].code)
        s3  == AcquireGw(s2, r, g)
    IN  IF s3.rw[r].buf = Nil
        THEN [st |-> s3, err |-> FALSE]
        ELSE LET e == GzWrite(s3, g, s3.bufs[r])
             IN  [st |-> [e.st EXCEPT !.rw[r].buf = Nil, !.bufs[r] = <<>>],
                  err |-> e.err]

\* Write sets Content-Type from b alone whenever the map has none.
gzipResponseWriterWrite(s, r, b, g) ==
    LET s0 == IF s.hdr[r].CT.src = "none"
              THEN [s EXCEPT !.hdr[r].CT =
                        [src |-> "sniffed", val |-> DetectContentType(b)]]
              ELSE s
    IN  IF s0.rw[r].gw # Nil
        THEN GzWrite(s0, s0.rw[r].gw, b)
        ELSE IF Len(gzipResponseWriterBuf(s0, r)) + Len(b) < s0.h.minSize
        THEN [st |-> gzipResponseWriterAppend(s0, r, b), err |-> FALSE]
        ELSE LET e == gzipResponseWriterStartGzip(s0, r, g)
             IN  IF e.err THEN e ELSE GzWrite(e.st, e.st.rw[r].gw, b)

\* Close sends the header and the buffer if the buffer is not nil, and
\* leaves the buffer as it is.
gzipResponseWriterClose(s, r) ==
    LET e1 == IF s.rw[r].buf # Nil
              THEN DownWrite(DownWriteHeader(s, r, s.rw[r].code), r, Raw(s.bufs[r]))
              ELSE [st |-> s, err |-> FALSE]
    IN  IF e1.err
        THEN e1
        ELSE IF e1.st.rw[r].gw = Nil
        THEN [st |-> e1.st, err |-> FALSE]
        ELSE LET e2 == GzClose(e1.st, e1.st.rw[r].gw)
             IN  [st |-> ReleaseGw(e2.st, r), err |-> e2.err]

\* The handler function of the variant, for a request that lists gzip with
\* a weight above zero: it builds the writer with a nil buffer.
GServe(r) ==
    /\ ctor.outcome = "ok"
    /\ pc[r] = "idle"
    /\ pc' = [pc EXCEPT ![r] = "run"]
    /\ hdr' = [hdr EXCEPT ![r].Vary = AddVary(@)]
    /\ wrapped' = [wrapped EXCEPT ![r] = TRUE]
    /\ given' = [given EXCEPT ![r] = caps[r] \cap {"hijack"}]
    /\ rw' = [rw EXCEPT ![r] = NilWriter]
    /\ last' = [last EXCEPT ![r] = Call("ServeHTTP", <<[Value |-> TokGzip, Q |-> 1000]>>, FALSE, 0)]
    /\ UNCHANGED <<ctor, h, alive, flusher, caps, down, gzw, pool, bufs,
                   bufferPool, hist>>

GWrite(r, n, g, max) ==
    /\ pc[r] = "run"
    /\ hist[r].written + n <= max
    /\ LET res == gzipResponseWriterWrite(World, r, Chunk(r, hist[r].written, n), g)
       IN  /\ Install([res.st EXCEPT !.hist[r].written = @ + n])
           /\ last' = [last EXCEPT ![r] = Call("Write", <<>>, res.err, res.st.calls)]
    /\ Frame

\* Close by the wrapped handler, at most twice.
GClose(r) ==
    /\ pc[r] = "run"
    /\ hist[r].closes < 2
    /\ LET res == gzipResponseWriterClose(World, r)
       IN  /\ Install([res.st EXCEPT !.hist[r].closes = IF @ < 2 THEN @ + 1 ELSE @])
           /\ last' = [last EXCEPT ![r] = Call("Close", <<>>, res.err, res.st.calls)]
    /\ Frame

\* The wrapped handler returns: defer gw.Close()
GReturn(r) ==
    /\ pc[r] = "run"
    /\ pc' = [pc EXCEPT ![r] = "done"]
    /\ LET res == gzipResponseWriterClose(World, r)
       IN  /\ Install([res.st EXCEPT !.hist[r].closes = IF @ < 2 THEN @ + 1 ELSE @])
           /\ last' = [last EXCEPT ![r] = Call("Close", <<>>, FALSE, res.st.calls)]
    /\ UNCHANGED <<ctor, h, alive, flusher, caps, given, wrapped>>

\* ------------------------------------------------------------ the system
Predicates == {"nil", "always", "never", "byType"}
InitialVary == {<<>>, <<"Cookie">>}

\* No request has arrived.
NoRequests(flushers, varies, capSets) ==
    /\ pc = [r \in Reqs |-> "idle"]
    /\ alive = [r \in Reqs |-> TRUE]
    /\ \E f \in flushers : flusher = [r \in Reqs |-> f]
    /\ \E c \in capSets : caps = [r \in Reqs |-> c]
    /\ given = [r \in Reqs |-> {}]
    /\ wrapped = [r \in Reqs |-> FALSE]
    /\ rw = [r \in Reqs |-> NilWriter]
    /\ \E v \in varies : hdr = [r \in Reqs |-> [EmptyHeader EXCEPT !.Vary = v]]
    /\ down = [r \in Reqs |-> [sent |-> FALSE, status |-> 0, snap |-> EmptyHeader,
                               body |-> <<>>, push |-> NoPush]]
    /\ gzw = [g \in Handles |-> NewGzipWriter]
    /\ pool = [g \in Handles |-> 0]
    /\ bufs = [b \in Bufs |-> <<>>]
    /\ bufferPool = [b \in Bufs |-> 0]
    /\ hist = [r \in Reqs |-> NoHist]
    /\ last = [r \in Reqs |-> Call("none", <<>>, FALSE, 0)]

\* A handler built by GzipWithOptions at the default level.
InitWith(minSizes, predicates, flushers, varies, capSets) ==
    /\ \E o \in [Level : {DefaultCompression}, MinSize : minSizes,
                  CanCompress : predicates] :
          /\ ~GzipWithOptions(o).panic
          /\ h = GzipWithOptions(o).h
          /\ ctor = [call |-> [via |-> "GzipWithOptions", opts |-> o], outcome |-> "ok"]
    /\ NoRequests(flushers, varies, capSets)

\* The call of a constructor: it returns the handler, or panics.
Construct ==
    /\ ctor.outcome = "none"
    /\ LET res == Build(ctor.call)
       IN  /\ ctor' = [ctor EXCEPT !.outcome = IF res.panic THEN "panic" ELSE "ok"]
           /\ h' = res.h
    /\ UNCHANGED <<pc, alive, flusher, caps, given, wrapped, rw, hdr, down, gzw,
                   pool, bufs, bufferPool, hist, last>>

\* A client accepting gzip.
GzipOnly == <<[Value |-> TokGzip, Q |-> 1000]>>

First == CHOOSE r \in Reqs : \A q \in Reqs : r <= q

Serve(r, lists) ==
    \E specs \in lists, b \in PoolChoices(bufferPool, BufMade) :
        ServeHTTP(r, specs, b)

SetHeaders(r) ==
    \/ \E code \in Codes : HWriteHeader(r, code)
    \/ HSetContentLength(r)
    \/ HSetContentType(r)

WriteAny(r, max) ==
    \E n \in 0..(IF max < MaxChunk THEN max ELSE MaxChunk), g \in HandleChoices :
        HWrite(r, n, g, max)

\* The responseWriter of one accepted request: every configuration of the
\* handler and every call sequence of the wrapped handler, on a transport
\* that accepts all writes.
Init == InitWith(0..MaxMinSize, Predicates, {TRUE}, {<<>>}, {{}})

Next ==
    \/ Serve(First, {GzipOnly})
    \/ SetHeaders(First)
    \/ WriteAny(First, MaxBytes)
    \/ HFlush(First)
    \/ HClose(First)
    \/ HReturn(First)
    \/ HPanic(First)

Spec == Init /\ [][Next]_vars

\* The same writer with a client that may go away at any time, for a handler
\* that leaves the status and the Content-Length alone.
InitFail == InitWith(0..MaxMinSize, Predicates, {TRUE}, {<<>>}, {{}})

NextFail ==
    \/ Serve(First, {GzipOnly})
    \/ HSetContentType(First)
    \/ WriteAny(First, MaxBytes)
    \/ HFlush(First)
    \/ HClose(First)
    \/ HReturn(First)
    \/ HPanic(First)
    \/ Disconnect(First)

SpecFail == InitFail /\ [][NextFail]_vars

\* The entry point: every Accept-Encoding list, downstream writers with and
\* without Flush, responses that already carry a Vary value, short bodies.
InitServe == InitWith(0..1, {"nil"}, BOOLEAN, InitialVary, {{}})

NextServe ==
    \/ Serve(First, AcceptLists)
    \/ SetHeaders(First)
    \/ WriteAny(First, FewBytes)
    \/ HFlush(First)
    \/ HClose(First)
    \/ HReturn(First)
    \/ HPanic(First)

SpecServe == InitServe /\ [][NextServe]_vars

\* Concurrent requests of clients accepting gzip, sharing the pools.
InitConc == InitWith({1}, {"nil"}, {TRUE}, {<<>>}, {{}})

NextConc ==
    \E r \in Reqs :
        \/ Serve(r, {GzipOnly})
        \/ \E n \in 1..FewBytes, g \in HandleChoices : HWrite(r, n, g, FewBytes)
        \/ HClose(r)
        \/ HReturn(r)

SpecConc == InitConc /\ [][NextConc]_vars

\* The writer handed to the wrapped handler, for every set of optional
\* interfaces of the downstream writer, and the pushes made through it.
InitCaps == InitWith(0..1, {"nil"}, {TRUE}, {<<>>}, SUBSET Capabilities)

NextCaps ==
    \/ Serve(First, {GzipOnly, <<>>})
    \/ \E opts \in PushOptions : HPush(First, opts)
    \/ WriteAny(First, FewBytes)
    \/ HReturn(First)

SpecCaps == InitCaps /\ [][NextCaps]_vars

\* Construction: every constructor with levels and minimum sizes inside
\* and outside their valid ranges, then a request to the handler built.
Levels   == (HuffmanOnly - Beyond)..(BestCompression + Beyond)
MinSizes == (0 - Beyond)..FewBytes

InitConfig ==
    /\ ctor \in [call : [via : Constructors,
                         opts : [Level : Levels, MinSize : MinSizes,
                                 CanCompress : {"nil"}]],
                  outcome : {"none"}]
    /\ h = NilHandler
    /\ NoRequests({TRUE}, {<<>>}, {{}})

NextConfig ==
    \/ Construct
    \/ Serve(First, {GzipOnly})
    \/ WriteAny(First, FewBytes)
    \/ HReturn(First)

SpecConfig == InitConfig /\ [][NextConfig]_vars

\* Concurrent requests that buffer before they commit or close, with and
\* without a predicate that rejects compression.
InitBufs == InitWith({FewBytes + 1}, {"nil", "never"}, {TRUE}, {<<>>}, {{}})

NextBufs ==
    \E r \in Reqs :
        \/ Serve(r, {GzipOnly})
        \/ \E g \in HandleChoices : HWrite(r, 1, g, FewBytes + 1)
        \/ HClose(r)
        \/ HReturn(r)

SpecBufs == InitBufs /\ [][NextBufs]_vars

\* The older variant: one accepted request, every minimum size.
InitVariant == InitWith(0..MaxMinSize, {"nil"}, {TRUE}, {<<>>}, {{}})

NextVariant ==
    \/ GServe(First)
    \/ \E code \in Codes : HWriteHeader(First, code)
    \/ \E n \in 0..MaxChunk, g \in HandleChoices : GWrite(First, n, g, MaxBytes)
    \/ HFlush(First)
    \/ GClose(First)
    \/ GReturn(First)

SpecVariant == InitVariant /\ [][NextVariant]_vars

\* ================================================================ claims
Written(r) == Chunk(r, 0, hist[r].written)
Finished(r) == pc[r] \in {"done", "panicked"}

\* C1: with a client accepting gzip, while the bytes written total fewer than
\* minSize no compressor handle is acquired and Content-Encoding is not set,
\* in the header map or in the header sent; after Close the body downstream is
\* exactly the written bytes, as they are.
C1_BelowMinSizeUncompressed ==
    \A r \in Reqs :
        (wrapped[r] /\ hist[r].written < h.minSize) =>
            /\ hist[r].acq = 0
            /\ rw[r].gw = Nil
            /\ hdr[r].CE = ""
            /\ down[r].snap.CE = ""
            /\ hist[r].closes >= 1 => down[r].body = Raw(Written(r))

C1_Witness ==
    \E r \in Reqs :
        /\ wrapped[r]
        /\ hist[r].written >= 1
        /\ hist[r].written < h.minSize
        /\ hist[r].flushed
        /\ rw[r].code # StatusOK
        /\ hist[r].closes >= 1
        /\ down[r].body = Raw(Written(r))

OnlyWrites(r) ==
    /\ rw[r].code = StatusOK
    /\ hdr[r].CL = ""
    /\ hdr[r].CT.src # "handler"
    /\ ~hist[r].flushed
    /\ pc[r] # "panicked"

\* C2 (as claimed): with a client accepting gzip and no predicate rejecting
\* compression, after any sequence of Write calls alone that totals at least
\* minSize bytes, followed by Close, Content-Encoding is gzip and the body
\* downstream is one gzip stream of exactly the written bytes in order.
C2_Claim ==
    \A r \in Reqs :
        ( /\ wrapped[r]
          /\ h.canCompress = "nil" \/ CanCompress(h.canCompress, hdr[r])
          /\ OnlyWrites(r)
          /\ hist[r].written >= h.minSize
          /\ hist[r].closes >= 1 ) =>
            /\ hdr[r].CE = "gzip"
            /\ down[r].snap.CE = "gzip"
            /\ IsGzipStream(down[r].body)
            /\ Gunzip(down[r].body) = Written(r)

\* C3 (as claimed): the status line is sent downstream only at the commit
\* (compress, pass-through or close), before any body byte, with the status
\* code the handler set last; it has been sent once Close has returned.
C3_Claim ==
    /\ [](\A r \in Reqs : (wrapped[r] /\ hist[r].closes >= 1) => down[r].sent)
    /\ [][\A r \in Reqs :
            (wrapped[r] /\ ~down[r].sent /\ down'[r].sent) =>
                /\ rw'[r].buf = Nil
                /\ down'[r].status = rw[r].code
                /\ down[r].body = <<>>]_vars

\* C4: over any number of Close calls a responseWriter returns the handle it
\* acquired to the pool exactly once, after gzip.Writer.Close was called on
\* it; no handle is in the pool twice, or in the pool while a writer holds it.
C4_HandleReleasedOnce ==
    /\ \A r \in Reqs :
          /\ hist[r].puts <= hist[r].acq
          /\ hist[r].closes >= 1 => (hist[r].puts = hist[r].acq /\ rw[r].gw = Nil)
    /\ \A g \in Handles :
          /\ pool[g] <= 1
          /\ pool[g] = 1 =>
                /\ gzw[g].closed \/ gzw[g].err
                /\ \A r \in Reqs : rw[r].gw # g

C4_Witness ==
    \E r \in Reqs, g \in Handles :
        /\ hist[r].closes = 2
        /\ hist[r].acq = 1
        /\ hist[r].puts = 1
        /\ pool[g] = 1
        /\ gzw[g].closed

\* C5: a Close that immediately follows a Close of the same writer returns
\* nil, makes no call on the downstream writer and changes neither the
\* header map nor what was sent.
C5_CloseIdempotent ==
    [][\A r \in Reqs :
          ( /\ last[r].op = "Close"
            /\ hist[r].closes = 1
            /\ hist'[r].closes = 2
            /\ last'[r].op = "Close" ) =>
              /\ ~last'[r].err
              /\ last'[r].calls = 0
              /\ down' = down
              /\ hdr' = hdr
              /\ rw' = rw]_vars

C5_Witness ==
    \E r \in Reqs :
        /\ hist[r].closes = 2
        /\ last[r].op = "Close"
        /\ rw[r].state = writerStateCompress
        /\ pc[r] = "run"

Delivered(r) ==
    IF hist[r].acq > 0
    THEN IsGzipStream(down[r].body) /\ Gunzip(down[r].body) = Written(r)
    ELSE down[r].body = Raw(Written(r))

\* C6: when ServeHTTP has unwound from an accepted request, by return or by
\* panic, the writer was closed, holds no buffer and no handle, has put its
\* buffer and every handle it acquired back in their pools, and (the
\* transport accepting writes) everything written is downstream.
C6_FinalizedOnEveryExit ==
    \A r \in Reqs :
        (Finished(r) /\ wrapped[r]) =>
            /\ hist[r].closes >= 1
            /\ rw[r].buf = Nil
            /\ rw[r].gw = Nil
            /\ hist[r].bufPuts = 1
            /\ hist[r].puts = hist[r].acq
            /\ alive[r] => Delivered(r)

C6_Witness ==
    \E r \in Reqs :
        /\ pc[r] = "panicked"
        /\ wrapped[r]
        /\ hist[r].closes = 1
        /\ hist[r].acq = 1
        /\ hist[r].puts = 1
        /\ hist[r].written >= 1
        /\ Delivered(r)

Owner(byte) == byte \div 100

\* C7: under any interleaving of requests a handle is held by at most one
\* responseWriter and is not in the pool while held; it writes to the
\* downstream writer of the response that holds it; and every byte that
\* reaches a downstream writer, or waits in a handle, was written by the
\* handler of that response.
C7_HandleOwnedByOne ==
    /\ \A r1, r2 \in Reqs :
          (r1 # r2 /\ rw[r1].gw # Nil) => rw[r1].gw # rw[r2].gw
    /\ \A r \in Reqs :
          rw[r].gw # Nil =>
              /\ pool[rw[r].gw] = 0
              /\ gzw[rw[r].gw].sink = r
              /\ \A i \in DOMAIN gzw[rw[r].gw].pend : Owner(gzw[rw[r].gw].pend[i][2]) = r
    /\ \A r \in Reqs :
          \A i \in DOMAIN down[r].body :
              down[r].body[i][1] \in {"raw", "gz"} => Owner(down[r].body[i][2]) = r

C7_Witness ==
    \E r1, r2 \in Reqs :
        /\ r1 # r2
        /\ Finished(r1)
        /\ hist[r1].acq = 1
        /\ IsGzipStream(down[r1].body)
        /\ rw[r2].gw # Nil
        /\ gzw[rw[r2].gw].pend # <<>>
        /\ pool = [g \in Handles |-> 0]

\* C8 (as claimed): whenever the compress path is chosen, the header that was
\* sent downstream has Content-Encoding gzip and no Content-Length.
C8_Claim ==
    \A r \in Reqs :
        (wrapped[r] /\ rw[r].state = writerStateCompress) =>
            /\ down[r].sent
            /\ down[r].snap.CE = "gzip"
            /\ down[r].snap.CL = ""

\* C9: ServeHTTP appends Accept-Encoding to the Vary values the response has,
\* for every request, accepted or not; the wrapped handler runs after that,
\* and every header sent downstream carries the value.
C9_VaryAppended ==
    [][\A r \in Reqs :
          /\ (pc[r] = "idle" /\ pc'[r] # "idle") =>
                hdr'[r].Vary = Append(hdr[r].Vary, "Accept-Encoding")
          /\ pc[r] # "idle" => hdr'[r].Vary = hdr[r].Vary
          /\ down'[r].sent =>
                down'[r].snap.Vary = hdr'[r].Vary /\ pc[r] # "idle"]_vars

C9_Witness ==
    \E r \in Reqs :
        /\ ~wrapped[r]
        /\ Finished(r)
        /\ down[r].sent
        /\ down[r].snap.Vary = <<"Cookie", "Accept-Encoding">>

ListsGzip(specs) ==
    \E i \in DOMAIN specs : ToLower(specs[i].Value) = TokGzip /\ specs[i].Q > 0

\* C10 (as claimed): ServeHTTP wraps the writer iff some spec of the
\* Accept-Encoding list has the token gzip, in any case, and a weight above
\* zero; otherwise the handler gets the original writer and no buffer is taken.
C10_Claim ==
    \A r \in Reqs :
        last[r].op = "ServeHTTP" =>
            /\ wrapped[r] <=> ListsGzip(last[r].arg)
            /\ ~wrapped[r] => (rw[r] = NilWriter /\ bufferPool = [b \in Bufs |-> 0])

\* C11: when the configured predicate returns false at the commit, the writer
\* takes the pass-through path, and on that path, whatever the Write calls
\* were, no handle is acquired, Content-Encoding is not set, in the header
\* map or in the header sent, a Content-Length the handler set is not
\* removed, and the body downstream is exactly the bytes written, in order.
C11_RejectedIsVerbatim ==
    /\ [](\A r \in Reqs :
            (wrapped[r] /\ rw[r].state = writerStatePassThrough) =>
                /\ hist[r].acq = 0
                /\ rw[r].gw = Nil
                /\ hdr[r].CE = ""
                /\ down[r].snap.CE = ""
                /\ down[r].body = Raw(Written(r)))
    /\ [][\A r \in Reqs :
            /\ ( /\ wrapped[r]
                 /\ hist'[r].evals = hist[r].evals + 1
                 /\ ~CanCompress(h.canCompress, hdr'[r]) ) =>
                    /\ rw'[r].state = writerStatePassThrough
                    /\ down'[r].sent
                    /\ ~down[r].sent => down'[r].snap.CL = hdr[r].CL
            /\ (wrapped[r] /\ rw'[r].state = writerStatePassThrough) =>
                    (hdr[r].CL # "" => hdr'[r].CL = hdr[r].CL)]_vars

C11_Witness ==
    \E r \in Reqs :
        /\ wrapped[r]
        /\ h.canCompress = "byType"
        /\ rw[r].state = writerStatePassThrough
        /\ last[r].op = "Write"
        /\ last[r].calls = 3
        /\ hdr[r].CL # ""
        /\ down[r].snap.CL # ""
        /\ hist[r].written = MaxBytes
        /\ down[r].body = Raw(Written(r))

\* C12 (as claimed): when the header of an accepted response is sent, its
\* Content-Type is the value the handler set, if it set one before, and
\* otherwise the type sniffed from the first sniffLen bytes of everything
\* written so far, the write that triggers the commit included; on the
\* compress path and on the path that Close finalizes.
C12_Claim ==
    [][\A r \in Reqs :
          (wrapped[r] /\ ~down[r].sent /\ down'[r].sent) =>
              down'[r].snap.CT =
                  IF hdr[r].CT.src = "handler"
                  THEN hdr[r].CT
                  ELSE [src |-> "sniffed",
                        val |-> Prefix(Written(r)', sniffLen)]]_vars

IsData(item) == item[1] \in {"raw", "gz"}
BodyBytes(r) == Payload(SelectSeq(down[r].body, IsData))

\* C13 (as claimed): a Flush by the handler while the writer is buffering
\* below the threshold commits the response: when it returns the writer has
\* left the Initial state and holds no buffer, the header is downstream with
\* the saved status, and the bytes written so far are downstream.
C13_Claim ==
    [][\A r \in Reqs :
          ( /\ wrapped[r]
            /\ rw[r].state = writerStateInitial
            /\ rw[r].buf # Nil
            /\ last'[r].op = "Flush" ) =>
              /\ rw'[r].state # writerStateInitial
              /\ rw'[r].buf = Nil
              /\ down'[r].sent
              /\ down'[r].status = rw[r].code
              /\ BodyBytes(r)' = Written(r)]_vars

\* C14 (as claimed): for each of the 8 sets of optional interfaces
\* (close-notify, hijack, push) the downstream writer may have, the writer
\* that ServeHTTP passes to the wrapped handler has exactly that set: none
\* the downstream writer lacks, and every one it has.
C14_Claim ==
    \A r \in Reqs :
        pc[r] # "idle" =>
            /\ given[r] \subseteq caps[r]
            /\ caps[r] \subseteq given[r]

TakesLevel(call)   == call.via # "Gzip"
TakesMinSize(call) == call.via \in {"GzipWithLevelAndMinSize", "GzipWithOptions"}

C16_Claim ==
    ( /\ ctor.outcome # "none"
      /\ ctor.call.via = "GzipWithOptions"
      /\ ctor.call.opts.Level = NoCompression
      /\ ctor.call.opts.MinSize >= 0 ) =>
        /\ ctor.outcome = "ok"
        /\ h.level = NoCompression

\* C17 (as claimed): a handle in the pool has been closed, its trailer
\* written, and reset, so that its sink is not the downstream writer of the
\* response it served, nor that of any other response.
C17_Claim ==
    \A g \in Handles :
        pool[g] > 0 =>
            /\ gzw[g].closed
            /\ gzw[g].pend = <<>>
            /\ \A r \in Reqs : gzw[g].sink # r

Compressed(r) == hist[r].acq > 0 \/ down[r].snap.CE = "gzip"

\* C18 (as claimed): a response is compressed only if its whole body is
\* longer than minSize; a finished response of exactly minSize bytes went
\* out uncompressed.
C18_Claim ==
    \A r \in Reqs :
        (wrapped[r] /\ Finished(r)) =>
            /\ Compressed(r) => hist[r].written > h.minSize
            /\ hist[r].written = h.minSize =>
                  (~Compressed(r) /\ down[r].body = Raw(Written(r)))

\* C19 (as claimed): with MinSize zero and no predicate, every finished
\* response to a client accepting gzip is compressed, whatever the wrapped
\* handler did before it returned: Content-Encoding gzip was sent and the
\* body is one gzip stream of the written bytes.
C19_Claim ==
    \A r \in Reqs :
        ( /\ wrapped[r]
          /\ h.minSize = 0
          /\ h.canCompress = "nil"
          /\ pc[r] = "done" ) =>
            /\ hist[r].acq = 1
            /\ down[r].sent
            /\ down[r].snap.CE = "gzip"
            /\ IsGzipStream(down[r].body)
            /\ Gunzip(down[r].body) = Written(r)

\* C20 (as claimed): a Push made through the writer of an accepted request
\* reaches the Push of the downstream writer with Accept-Encoding: gzip among
\* the headers of its options, whatever options the handler passed.
C20_Claim ==
    \A r \in Reqs :
        (wrapped[r] /\ down[r].push.called) =>
            /\ ~down[r].push.opts.nil
            /\ AcceptGzip \in down[r].push.opts.Header

Increasing(bs) == \A i, j \in DOMAIN bs : i < j => bs[i] < bs[j]
InFlight(r) ==
    BodyBytes(r) \o (IF rw[r].gw # Nil THEN Payload(gzw[rw[r].gw].pend) ELSE <<>>)

\* C21: a writer that has left Initial for PassThrough or Compress keeps
\* that state; it holds its buffer exactly while it is in Initial and was not
\* closed; it holds a handle only in Compress, with no buffer; no body has
\* both bytes sent as they are and bytes sent through the compressor, and no
\* written byte is downstream, or in the handle, twice.
C21_PathIsTerminal ==
    /\ [](\A r \in Reqs :
            wrapped[r] =>
                /\ rw[r].buf # Nil <=>
                      (rw[r].state = writerStateInitial /\ hist[r].closes = 0)
                /\ rw[r].gw # Nil =>
                      (rw[r].state = writerStateCompress /\ rw[r].buf = Nil)
                /\ \/ \A i \in DOMAIN down[r].body : down[r].body[i][1] = "raw"
                   \/ \A i \in DOMAIN down[r].body : down[r].body[i][1] # "raw"
                /\ Increasing(InFlight(r))
                /\ Cardinality({i \in DOMAIN down[r].body :
                                    down[r].body[i] = GzHeader}) <= 1)
    /\ [][\A r \in Reqs :
            (wrapped[r] /\ rw[r].state # writerStateInitial) =>
                rw'[r].state = rw[r].state]_vars

C21_Witness ==
    \E r \in Reqs :
        /\ wrapped[r]
        /\ h.minSize = MaxBytes
        /\ rw[r].state = writerStateCompress
        /\ hist[r].written = MaxBytes
        /\ hist[r].closes = 2
        /\ last[r].calls = 0
        /\ IsGzipStream(down[r].body)
        /\ Gunzip(down[r].body) = Written(r)

\* C22: a Write in the Initial state that leaves the buffered bytes below
\* minSize returns nil and makes no call on the downstream writer: nothing
\* is sent, the header map and the writer's fields stay as they are, no
\* handle is taken; the buffer grows by exactly the bytes written.
C22_BufferedWriteIsSilent ==
    [][\A r \in Reqs :
          LET n == hist'[r].written - hist[r].written
          IN  ( /\ wrapped[r]
                /\ last'[r].op = "Write"
                /\ pc'[r] = "run"
                /\ rw[r].state = writerStateInitial
                /\ rw[r].buf # Nil
                /\ Len(bufs[rw[r].buf]) + n < h.minSize ) =>
                  /\ ~last'[r].err
                  /\ last'[r].calls = 0
                  /\ down' = down
                  /\ hdr' = hdr
                  /\ rw' = rw
                  /\ gzw' = gzw
                  /\ pool' = pool
                  /\ hist'[r].acq = 0
                  /\ bufs'[rw[r].buf] =
                        bufs[rw[r].buf] \o Chunk(r, hist[r].written, n)]_vars

C22_Witness ==
    \E r \in Reqs :
        /\ wrapped[r]
        /\ last[r].op = "Write"
        /\ rw[r].state = writerStateInitial
        /\ rw[r].buf # Nil
        /\ hist[r].written = 2
        /\ bufs[rw[r].buf] = Written(r)
        /\ bufs[rw[r].buf][1] # bufs[rw[r].buf][2]
        /\ ~down[r].sent

\* C23: a Write that commits the response while the transport fails returns
\* the error, and so does a Close by the handler that has buffered bytes to
\* send or a handle to close; neither returns an error while the transport
\* accepts writes.  The Write that reaches the threshold puts the buffer
\* back in its pool, emptied, whether it fails or not; after Close the
\* writer holds neither buffer nor handle, the buffer was put back once and
\* every handle acquired was put back once.
C23_ErrorsReturnedResourcesReleased ==
    /\ [](\A r \in Reqs :
            (wrapped[r] /\ hist[r].closes >= 1) =>
                /\ rw[r].buf = Nil
                /\ rw[r].gw = Nil
                /\ hist[r].bufPuts = 1
                /\ hist[r].acq <= 1
                /\ hist[r].puts = hist[r].acq)
    /\ [][\A r \in Reqs :
            /\ ( /\ wrapped[r]
                 /\ last'[r].op = "Write"
                 /\ pc'[r] = "run"
                 /\ rw[r].buf # Nil
                 /\ Len(bufs[rw[r].buf]) + (hist'[r].written - hist[r].written)
                        >= h.minSize ) =>
                    /\ last'[r].err <=> ~alive[r]
                    /\ rw'[r].buf = Nil
                    /\ bufs'[rw[r].buf] = <<>>
                    /\ bufferPool'[rw[r].buf] = bufferPool[rw[r].buf] + 1
                    /\ hist'[r].bufPuts = 1
            /\ ( /\ wrapped[r]
                 /\ last'[r].op = "Close"
                 /\ pc'[r] = "run"
                 /\ hist[r].closes = 0 ) =>
                    /\ last'[r].err <=>
                          (~alive[r] /\ (rw[r].buf # Nil \/ rw[r].gw # Nil))
                    /\ rw[r].gw # Nil => pool'[rw[r].gw] = pool[rw[r].gw] + 1]_vars

C23_Witness ==
    \E r \in Reqs :
        /\ wrapped[r]
        /\ ~alive[r]
        /\ pc[r] = "run"
        /\ last[r].op = "Close"
        /\ last[r].err
        /\ hist[r].closes = 1
        /\ hist[r].acq = 1
        /\ hist[r].puts = 1
        /\ hist[r].bufPuts = 1
        /\ ~IsGzipStream(down[r].body)

\* C24: the predicate is called at most once per response, and only by the
\* Write that reaches the threshold in the Initial state; that Write leaves
\* Initial, for PassThrough exactly if the predicate returned false, also
\* when it fails; from then on the state stays and the predicate is not
\* called again, by Write, Flush or Close.
C24_PredicateAskedOnce ==
    /\ [](\A r \in Reqs :
            /\ hist[r].evals <= 1
            /\ h.canCompress = "nil" => hist[r].evals = 0
            /\ hist[r].evals = 1 => rw[r].state # writerStateInitial)
    /\ [][\A r \in Reqs :
            /\ hist'[r].evals # hist[r].evals =>
                  /\ hist'[r].evals = hist[r].evals + 1
                  /\ last'[r].op = "Write"
                  /\ rw[r].state = writerStateInitial
                  /\ Len(bufs[rw[r].buf]) + (hist'[r].written - hist[r].written)
                        >= h.minSize
                  /\ rw'[r].state = writerStatePassThrough <=>
                        ~CanCompress(h.canCompress, hdr'[r])
                  /\ rw'[r].state = writerStateCompress <=>
                        CanCompress(h.canCompress, hdr'[r])
            /\ hist[r].evals = 1 =>
                  (hist'[r].evals = 1 /\ rw'[r].state = rw[r].state)]_vars

C24_Witness ==
    \E r \in Reqs :
        /\ wrapped[r]
        /\ h.canCompress = "byType"
        /\ hist[r].evals = 1
        /\ rw[r].state = writerStatePassThrough
        /\ ~alive[r]
        /\ down[r].body = <<>>
        /\ last[r].op = "Write"
        /\ last[r].err
        /\ last[r].calls = 1
        /\ hist[r].written = MaxBytes

\* C25 (as claimed): once the header of a response is downstream, no Write,
\* Flush or Close of the writer sets or changes Content-Type in the header
\* map; the writer sets the sniffed type at most once.
C25_Claim ==
    [][\A r \in Reqs :
          (wrapped[r] /\ last'[r].op \in {"Write", "Flush", "Close"}) =>
              /\ down[r].sent => hdr'[r].CT = hdr[r].CT
              /\ hdr[r].CT.src = "sniffed" => hdr'[r].CT = hdr[r].CT]_vars

\* C26 (as claimed): in the older variant, after writes of fewer than minSize
\* bytes in total, a second Close returns nil and makes no call on the
\* downstream writer; after the two Close calls the header is downstream with
\* the saved status and the body is the written bytes, once.
C26_Claim ==
    /\ [](\A r \in Reqs :
            ( /\ wrapped[r]
              /\ hist[r].closes = 2
              /\ hist[r].written >= 1
              /\ hist[r].written < h.minSize
              /\ ~hist[r].flushed ) =>
                /\ down[r].sent
                /\ down[r].status = rw[r].code
                /\ down[r].body = Raw(Written(r)))
    /\ [][\A r \in Reqs :
            ( /\ wrapped[r]
              /\ hist[r].written >= 1
              /\ hist[r].written < h.minSize
              /\ hist[r].closes = 1
              /\ hist'[r].closes = 2 ) =>
                /\ last'[r].calls = 0
                /\ down' = down]_vars

\* C27: under any interleaving of requests, a writer puts its buffer back in
\* the pool once, at the commit or at Close, and holds none afterwards; a
\* buffer in the pool is empty and is there once; a buffer a request takes
\* is empty, is held by that request alone, and holds that request's bytes
\* only; only its holder changes it; and every byte downstream for a
\* response was written by the handler of that response.
C27_BufferReleasedOnce ==
    /\ [](/\ \A r \in Reqs :
              wrapped[r] =>
                  /\ hist[r].bufPuts = (IF rw[r].buf = Nil THEN 1 ELSE 0)
                  /\ rw[r].buf # Nil =>
                        /\ bufferPool[rw[r].buf] = 0
                        /\ bufs[rw[r].buf] = Written(r)
                        /\ \A q \in Reqs \ {r} : rw[q].buf # rw[r].buf
                  /\ \A i \in DOMAIN down[r].body :
                        IsData(down[r].body[i]) => Owner(down[r].body[i][2]) = r
          /\ \A b \in Bufs :
              /\ bufferPool[b] <= 1
              /\ bufferPool[b] = 1 => bufs[b] = <<>>)
    /\ [][/\ \A r \in Reqs :
              (pc[r] = "idle" /\ wrapped'[r]) =>
                  (rw'[r].buf # Nil /\ bufs[rw'[r].buf] = <<>>)
          /\ \A b \in Bufs :
              bufs'[b] # bufs[b] => \E r \in Reqs : rw[r].buf = b]_vars

C27_Witness ==
    \E r1, r2 \in Reqs, b \in Bufs :
        /\ r1 # r2
        /\ wrapped[r1]
        /\ Finished(r1)
        /\ hist[r1].written >= 1
        /\ hist[r1].bufPuts = 1
        /\ Delivered(r1)
        /\ rw[r2].buf = b
        /\ bufs[b] = Written(r2)
        /\ bufs[b] # <<>>
        /\ \A c \in Bufs \ {b} :
              bufferPool[c] = 0 /\ \A q \in Reqs : rw[q].buf # c

====
